---- MODULE Spec2Model ----
(***************************************************************************)
(* Spin-control state machine of the ESP8266 blinds firmware               *)
(* (src/src/main.cpp): position estimation from elapsed time, the          *)
(* start / retarget / stop transitions, the periodic servo reset, the      *)
(* EEPROM-backed position and the /set and /state command handlers.        *)
(*                                                                         *)
(* Numbers.  The firmware computes positions in `double`.  The model       *)
(* computes them exactly: a value is a pair <<n, d>> with d > 0 and        *)
(* gcd(n, d) = 1 (the rational n/d), or one of the three special values    *)
(* of IEEE arithmetic: <<0,0>> (NaN), <<1,0>> (+inf), <<-1,0>> (-inf).     *)
(* Rounding of finite results is not modelled.                             *)
(*                                                                         *)
(* Builds.  Config.h is not part of the sources at hand; `config` holds    *)
(* the values of its macros and every behaviour keeps the build it began   *)
(* with.                                                                   *)
(*                                                                         *)
(* Scheduling.  The handlers of the asynchronous web server run between    *)
(* two passes of loop() and while loop() waits in a delay(): a pass of     *)
(* loop() is one step unless it reaches the delay() of stopSpinning or of  *)
(* resetServo, where it is suspended (pc) and resumed by a later step.     *)
(* Power can be lost between any two steps.  The clock advances in steps   *)
(* of StepMillis and does not wrap within a run.                           *)
(***************************************************************************)
EXTENDS Integers, Sequences, FiniteSets, TLC

----------------------------------------------------------------------------
(* Exact arithmetic with the IEEE special values                           *)

RECURSIVE GCD(_, _)
GCD(a, b) == IF b = 0 THEN a ELSE GCD(b, a % b)

AbsInt(n) == IF n < 0 THEN -n ELSE n

SignInt(n) == IF n < 0 THEN -1 ELSE IF n > 0 THEN 1 ELSE 0

NaN == <<0, 0>>
PosInf == <<1, 0>>
NegInf == <<-1, 0>>

IsNaN(x) == x = NaN
IsInf(x) == x[2] = 0 /\ x[1] # 0
IsFinite(x) == x[2] > 0

\* the rational n/d (d > 0) in lowest terms
Norm(n, d) ==
    LET g == GCD(AbsInt(n), d)
    IN  <<n \div g, d \div g>>

\* (double) of an integer
FromInt(n) == <<n, 1>>

RNeg(x) == <<-x[1], x[2]>>

RAdd(x, y) ==
    IF IsNaN(x) \/ IsNaN(y) THEN NaN
    ELSE IF IsInf(x) /\ IsInf(y) THEN (IF x = y THEN x ELSE NaN)
    ELSE IF IsInf(x) THEN x
    ELSE IF IsInf(y) THEN y
    ELSE Norm(x[1] * y[2] + y[1] * x[2], x[2] * y[2])

RSub(x, y) == RAdd(x, RNeg(y))

RMul(x, y) ==
    IF IsNaN(x) \/ IsNaN(y) THEN NaN
    ELSE IF IsInf(x) \/ IsInf(y)
         THEN <<SignInt(x[1]) * SignInt(y[1]), 0>>    \* inf * 0 = NaN = <<0,0>>
    ELSE Norm(x[1] * y[1], x[2] * y[2])

\* x / y for finite x; a zero divisor is +0.0 (it is always (double) of an integer)
RDiv(x, y) ==
    IF IsNaN(x) \/ IsNaN(y) THEN NaN
    ELSE IF IsInf(x) /\ IsInf(y) THEN NaN
    ELSE IF IsInf(x) THEN <<SignInt(x[1]) * (IF y[1] < 0 THEN -1 ELSE 1), 0>>
    ELSE IF IsInf(y) THEN <<0, 1>>
    ELSE IF y[1] = 0 THEN <<SignInt(x[1]), 0>>         \* 0/0 = NaN = <<0,0>>
    ELSE Norm(SignInt(y[1]) * x[1] * y[2], AbsInt(y[1]) * x[2])

\* the comparisons of C++ on doubles: every ordered comparison with NaN is false
RLt(x, y) ==
    /\ ~IsNaN(x) /\ ~IsNaN(y)
    /\ IF IsInf(x) \/ IsInf(y)
       THEN (IF IsInf(x) THEN x[1] ELSE 0) < (IF IsInf(y) THEN y[1] ELSE 0)
       ELSE x[1] * y[2] < y[1] * x[2]

RGt(x, y) == RLt(y, x)

REq(x, y) == ~IsNaN(x) /\ ~IsNaN(y) /\ x = y

RNe(x, y) == ~REq(x, y)

\* Arduino's abs macro: ((x)>0?(x):-(x))
RAbs(x) == IF RGt(x, FromInt(0)) THEN x ELSE RNeg(x)


\* truncation toward zero of a finite value
Trunc(x) == IF x[1] >= 0 THEN x[1] \div x[2] ELSE -((-x[1]) \div x[2])

\* the largest long of the target (32 bits)
LongMax == 2147483647

\* (long) of a double.  Converting NaN, an infinity or a value that does not
\* fit is undefined in C++; the outcomes kept are zero, a large positive and a
\* large negative long.
ToLong(x) ==
    IF IsFinite(x) /\ Trunc(x) >= -LongMax /\ Trunc(x) <= LongMax
    THEN {Trunc(x)}
    ELSE {0, LongMax, -LongMax}

\* difference of two unsigned long readings of millis(); the clock of the
\* model never wraps, and no reading is subtracted from an earlier one
USub(a, b) == a - b

----------------------------------------------------------------------------
(* String::toDouble() (atof): optional sign, digits, optional fraction;     *)
(* the longest numeric prefix is converted and 0 results when there is none *)

Digits == <<"0", "1", "2", "3", "4", "5", "6", "7", "8", "9">>

IsDigit(c) == \E i \in 1..10 : Digits[i] = c

DigitVal(c) == (CHOOSE i \in 1..10 : Digits[i] = c) - 1

\* number of digits of str from position i on
RECURSIVE DigitRun(_, _)
DigitRun(str, i) ==
    IF i <= Len(str) /\ IsDigit(str[i]) THEN 1 + DigitRun(str, i + 1) ELSE 0

\* value of the k digits of str that start at position i, after accumulator acc
RECURSIVE DigitsValue(_, _, _, _)
DigitsValue(str, i, k, acc) ==
    IF k = 0 THEN acc
    ELSE DigitsValue(str, i + 1, k - 1, 10 * acc + DigitVal(str[i]))

RECURSIVE Pow10(_)
Pow10(k) == IF k = 0 THEN 1 ELSE 10 * Pow10(k - 1)

\* the digits of str that toDouble converts
ConvertedDigits(str) ==
    LET i0 == IF Len(str) >= 1 /\ str[1] \in {"-", "+"} THEN 2 ELSE 1
        ni == DigitRun(str, i0)
        dot == i0 + ni <= Len(str) /\ str[i0 + ni] = "."
    IN  ni + (IF dot THEN DigitRun(str, i0 + ni + 1) ELSE 0)

toDouble(str) ==
    LET signed == Len(str) >= 1 /\ str[1] \in {"-", "+"}
        sign == IF signed /\ str[1] = "-" THEN -1 ELSE 1
        i0 == IF signed THEN 2 ELSE 1
        ni == DigitRun(str, i0)
        dot == i0 + ni <= Len(str) /\ str[i0 + ni] = "."
        nf == IF dot THEN DigitRun(str, i0 + ni + 1) ELSE 0
        whole == DigitsValue(str, i0, ni, 0)
        frac == DigitsValue(str, i0 + ni + 1, nf, 0)
    IN  IF ConvertedDigits(str) = 0 THEN FromInt(0)
        ELSE Norm(sign * (whole * Pow10(nf) + frac), Pow10(nf))


----------------------------------------------------------------------------
(* Bounds and the values the environment supplies                           *)

\* the clock advances in steps of StepMillis, at most MaxSteps times per boot
MaxSteps == 4
StepMillis == 10 * 100

\* at most MaxRequests /set requests are served in a run
MaxRequests == 2

\* the values Config.h may give DEFAULT_SECONDS_TO_CLOSE / DEFAULT_SECONDS_TO_OPEN
CloseSecondsChoices == {10}
OpenSecondsChoices == {10, 20}

\* the builds: one record per choice of the macros of Config.h
Configs ==
    [ DEFAULT_SECONDS_TO_CLOSE : CloseSecondsChoices,
      DEFAULT_SECONDS_TO_OPEN : OpenSecondsChoices,
      SERVO_RESET_REQUIRED : BOOLEAN,
      SERVO_RESET_EVERY_SECONDS : {2},
      SERVO_STOP_SIGNAL_REQUIRED : BOOLEAN,
      SERVO_STOP_DUTYCYCLE : {90} ]

\* the texts a client sends as ?position=...
ParamValues ==
    { <<"0">>, <<"3", "0">>, <<"1", "0", "0">>, <<"1", "5", "0">>, <<"-", "5">>,
      <<"a", "b", "c">> }

\* a /set request: with or without the position parameter
Requests ==
    {[hasParam |-> FALSE, value |-> <<>>]}
        \cup {[hasParam |-> TRUE, value |-> v] : v \in ParamValues}

\* the positions earlier runs may have left in the store
StoredPositions == {30, 100}

servoPin == 2


----------------------------------------------------------------------------
(* State                                                                    *)

VARIABLES
    config,                 \* the macros of Config.h this build was compiled with
    eeprom,                 \* the durable store (flash), by field
    pc,                     \* "off", "loop", or the delay() the loop is suspended in
    serverBegun,            \* server.begin() was reached: the handlers are live
    millis,                 \* the clock
    secondsToClose, secondsToOpen,
    milliesPerPercentClose, millisPerPercentOpen,
    startingPosition, currentPosition, desiredPosition,
    spinning, direction, dutyCycle,
    previousMillis, lastResetMillis, interval,
    loopMillis,             \* loop()'s local currentMillis while it is suspended
    stopping,               \* while stopSpinning waits in its delay(): the session
                            \* whose completion loop() found, else empty
    servoAttached,          \* the Servo object drives the pin
    servoLog,               \* the Servo calls of the latest operation, in order
    commits,                \* the EEPROM.commit() calls of the latest operation
    lastOp,                 \* the latest operation: its name, the text of its
                            \* position parameter (if any) and its reply
    requests                \* the /set requests served so far

calibration == <<secondsToClose, secondsToOpen, milliesPerPercentClose, millisPerPercentOpen>>

session == <<startingPosition, currentPosition, desiredPosition, spinning, direction,
             dutyCycle, previousMillis, lastResetMillis, interval>>

vars == <<config, eeprom, pc, serverBegun, millis, calibration, session, loopMillis,
          stopping, servoAttached, servoLog, commits, lastOp, requests>>

\* what tells one session from another
SessionKey == <<startingPosition, desiredPosition, previousMillis, interval>>

Op(name, arg, reply) == [name |-> name, arg |-> arg, reply |-> reply]

\* (seconds * 1000) / 100 in unsigned int
MillisPerPercent(seconds) == (seconds * 1000) \div 100

millisPerServoReset == config.SERVO_RESET_EVERY_SECONDS * 1000

----------------------------------------------------------------------------
(* startSpinning                                                            *)

\* the test that lets a request through
StartGuard(newPosition) ==
    RNe(newPosition, desiredPosition) \/ RNe(newPosition, currentPosition)

\* millisPerPercent for a move from currentPosition to newPosition
RateFor(newPosition) ==
    IF RGt(newPosition, currentPosition) THEN millisPerPercentOpen
    ELSE milliesPerPercentClose

\* the outcomes of (long)(abs(desiredPosition - currentPosition) * millisPerPercent)
IntervalFor(newPosition) ==
    ToLong(RMul(RAbs(RSub(newPosition, currentPosition)), FromInt(RateFor(newPosition))))

DutyCycleFor(newPosition) == IF RGt(newPosition, currentPosition) THEN 0 ELSE 180

DirectionFor(newPosition) == IF RGt(newPosition, currentPosition) THEN 1 ELSE -1

startSpinning(newPosition) ==
    IF StartGuard(newPosition)
    THEN \E iv \in IntervalFor(newPosition) :
            /\ desiredPosition' = newPosition
            /\ interval' = iv
            /\ dutyCycle' = DutyCycleFor(newPosition)
            /\ servoAttached' = TRUE
            /\ servoLog' = (IF spinning THEN << <<"detach", servoPin>> >> ELSE << >>)
                           \o << <<"attach", servoPin>>,
                                 <<"write", DutyCycleFor(newPosition)>> >>
            /\ direction' = DirectionFor(newPosition)
            /\ previousMillis' = millis
            /\ lastResetMillis' = millis
            /\ spinning' = TRUE
            /\ startingPosition' = currentPosition
            /\ UNCHANGED currentPosition
    ELSE /\ servoLog' = << >>
         /\ UNCHANGED <<session, servoAttached>>

----------------------------------------------------------------------------
(* loop, stopSpinning, resetServo                                           *)

percentCompleted(currentMillis) ==
    RDiv(FromInt(USub(currentMillis, previousMillis)), FromInt(interval))

\* the position loop() computes at currentMillis
Estimate(currentMillis) ==
    RAdd(RMul(percentCompleted(currentMillis), RSub(desiredPosition, startingPosition)),
         startingPosition)

\* position has been reached or is out of range
StopCondition(position, percent) ==
    \/ REq(position, desiredPosition)
    \/ RGt(percent, FromInt(1))
    \/ RLt(position, FromInt(0))
    \/ RGt(position, FromInt(100))

ResetDue(currentMillis) ==
    /\ config.SERVO_RESET_REQUIRED
    /\ USub(currentMillis, lastResetMillis) >= millisPerServoReset

\* stores the latest estimate instead of the target
StoredAtStopEstimate == currentPosition

\* the position stopSpinning stores
StoredAtStop == desiredPosition

\* ends the session without EEPROM.put / EEPROM.commit
stopSpinningTailWithoutPersist ==
    /\ servoAttached' = FALSE
    /\ spinning' = FALSE
    /\ currentPosition' = StoredAtStop
    /\ commits' = 0
    /\ pc' = "loop"
    /\ loopMillis' = 0
    /\ stopping' = << >>
    /\ UNCHANGED <<eeprom, startingPosition, desiredPosition, direction, dutyCycle,
                   previousMillis, lastResetMillis, interval>>

\* stopSpinning from servo.detach() on, and the rest of loop() after it
stopSpinningTail ==
    /\ servoAttached' = FALSE
    /\ spinning' = FALSE
    /\ currentPosition' = StoredAtStop
    /\ eeprom' = [eeprom EXCEPT !.currentPosition = StoredAtStop]
    /\ commits' = 1
    /\ pc' = "loop"
    /\ loopMillis' = 0
    /\ stopping' = << >>
    /\ UNCHANGED <<startingPosition, desiredPosition, direction, dutyCycle,
                   previousMillis, lastResetMillis, interval>>


\* one pass of loop() up to its end or to the delay() it suspends in
loop ==
    /\ pc = "loop"
    /\ lastOp' = Op("loop", << >>, 0)
    /\ UNCHANGED <<config, serverBegun, millis, calibration, requests>>
    /\ IF ~spinning
       THEN /\ servoLog' = << >>
            /\ commits' = 0
            /\ UNCHANGED <<eeprom, pc, session, loopMillis, stopping, servoAttached>>
       ELSE LET currentMillis == millis
                percent == percentCompleted(currentMillis)
                position == Estimate(currentMillis)
            IN  IF StopCondition(position, percent)
                THEN IF config.SERVO_STOP_SIGNAL_REQUIRED
                     THEN \* servo.write(SERVO_STOP_DUTYCYCLE); delay(...)
                          /\ currentPosition' = position
                          /\ servoLog' = << <<"write", config.SERVO_STOP_DUTYCYCLE>> >>
                          /\ commits' = 0
                          /\ pc' = "stopDelay"
                          /\ loopMillis' = currentMillis
                          /\ stopping' = <<SessionKey>>
                          /\ UNCHANGED <<eeprom, servoAttached, startingPosition,
                                         desiredPosition, spinning, direction, dutyCycle,
                                         previousMillis, lastResetMillis, interval>>
                     ELSE /\ servoLog' = << <<"detach", servoPin>> >>
                          /\ stopSpinningTail
                ELSE /\ currentPosition' = position
                     /\ commits' = 0
                     /\ UNCHANGED <<eeprom, startingPosition, desiredPosition, spinning,
                                    direction, dutyCycle, previousMillis, interval,
                                    stopping>>
                     /\ IF ResetDue(currentMillis)
                        THEN \* resetServo: servo.detach(); delay(...)
                             /\ servoAttached' = FALSE
                             /\ servoLog' = << <<"detach", servoPin>> >>
                             /\ pc' = "resetDelay"
                             /\ loopMillis' = currentMillis
                             /\ UNCHANGED lastResetMillis
                        ELSE /\ servoLog' = << >>
                             /\ UNCHANGED <<pc, loopMillis, servoAttached, lastResetMillis>>

\* stopSpinning resumes after delay(SERVO_STOP_SIGNAL_MILLISECONDS)
stopSpinningResume ==
    /\ pc = "stopDelay"
    /\ lastOp' = Op("stopSpinning", << >>, 0)
    /\ servoLog' = << <<"detach", servoPin>> >>
    /\ stopSpinningTail
    /\ UNCHANGED <<config, serverBegun, millis, calibration, requests>>

\* resumes as resetServoResume does, but records the reset as a new start of
\* the session's clock as well
resetServoResumeRestartingClock ==
    /\ pc = "resetDelay"
    /\ lastOp' = Op("resetServo", << >>, 0)
    /\ servoAttached' = TRUE
    /\ servoLog' = << <<"attach", servoPin>>, <<"write", dutyCycle>> >>
    /\ lastResetMillis' = loopMillis
    /\ previousMillis' = loopMillis
    /\ commits' = 0
    /\ pc' = "loop"
    /\ loopMillis' = 0
    /\ UNCHANGED <<config, eeprom, serverBegun, millis, calibration, startingPosition,
                   currentPosition, desiredPosition, spinning, direction, dutyCycle,
                   interval, stopping, requests>>

\* resetServo resumes after delay(SERVO_RESET_DELAY_MILLISECONDS), and loop()
\* then records the reset
resetServoResume ==
    /\ pc = "resetDelay"
    /\ lastOp' = Op("resetServo", << >>, 0)
    /\ servoAttached' = TRUE
    /\ servoLog' = << <<"attach", servoPin>>, <<"write", dutyCycle>> >>
    /\ lastResetMillis' = loopMillis
    /\ commits' = 0
    /\ pc' = "loop"
    /\ loopMillis' = 0
    /\ UNCHANGED <<config, eeprom, serverBegun, millis, calibration, startingPosition,
                   currentPosition, desiredPosition, spinning, direction, dutyCycle,
                   previousMillis, interval, stopping, requests>>

----------------------------------------------------------------------------
(* The command handlers                                                     *)

Running == pc \in {"loop", "stopDelay", "resetDelay"}

\* GET /set: the handler runs between two passes of loop() or inside a delay()
SetRequest(req) ==
    /\ Running /\ serverBegun
    /\ requests < MaxRequests
    /\ requests' = requests + 1
    /\ IF req.hasParam
       THEN /\ startSpinning(toDouble(req.value))
            /\ lastOp' = Op("set", <<req.value>>, 204)
       ELSE /\ servoLog' = << >>
            /\ lastOp' = Op("set", << >>, 204)
            /\ UNCHANGED <<session, servoAttached>>
    /\ commits' = 0
    /\ UNCHANGED <<config, eeprom, pc, serverBegun, millis, calibration, loopMillis,
                   stopping>>

\* the body of the reply to GET /state
StateReply == IF spinning THEN (IF direction = -1 THEN 0 ELSE 1) ELSE 2

GetState ==
    /\ Running /\ serverBegun
    /\ lastOp' = Op("state", << >>, StateReply)
    /\ servoLog' = << >>
    /\ commits' = 0
    /\ UNCHANGED <<config, eeprom, pc, serverBegun, millis, calibration, session,
                   loopMillis, stopping, servoAttached, requests>>

----------------------------------------------------------------------------
(* Boot, power loss, time                                                   *)

BlankStore ==
    [initialized |-> FALSE, secondsToClose |-> 0, secondsToOpen |-> 0,
     currentPosition |-> FromInt(0)]

\* the store of a device that earlier runs left at position p
UsedStore(cfg, p) ==
    [initialized |-> TRUE, secondsToClose |-> cfg.DEFAULT_SECONDS_TO_CLOSE,
     secondsToOpen |-> cfg.DEFAULT_SECONDS_TO_OPEN, currentPosition |-> FromInt(p)]

\* power is off; the store is blank (first boot) or was left by earlier runs
Init ==
    /\ config \in Configs
    /\ eeprom \in {BlankStore} \cup {UsedStore(config, p) : p \in StoredPositions}
    /\ pc = "off"
    /\ serverBegun = FALSE
    /\ millis = 0
    /\ secondsToClose = config.DEFAULT_SECONDS_TO_CLOSE
    /\ secondsToOpen = config.DEFAULT_SECONDS_TO_OPEN
    /\ milliesPerPercentClose = MillisPerPercent(config.DEFAULT_SECONDS_TO_CLOSE)
    /\ millisPerPercentOpen = MillisPerPercent(config.DEFAULT_SECONDS_TO_OPEN)
    /\ startingPosition = FromInt(0)
    /\ currentPosition = FromInt(0)
    /\ desiredPosition = FromInt(0)
    /\ spinning = FALSE
    /\ direction = 0
    /\ dutyCycle = 90
    /\ previousMillis = 0
    /\ lastResetMillis = 0
    /\ interval = 0
    /\ loopMillis = 0
    /\ stopping = << >>
    /\ servoAttached = FALSE
    /\ servoLog = << >>
    /\ commits = 0
    /\ lastOp = Op("off", << >>, 0)
    /\ requests = 0

\* keeps the static initial value instead of the stored one
LoadedPositionNotRead == currentPosition

\* the position a boot takes from an initialized store
LoadedPosition == eeprom.currentPosition

\* setup(); wifi is the outcome of WiFi.waitForConnectResult()
setup(wifi) ==
    /\ pc = "off"
    /\ pc' = "loop"
    /\ lastOp' = Op("setup", << >>, 0)
    /\ servoLog' = << <<"detach", servoPin>> >>
    /\ servoAttached' = FALSE
    /\ UNCHANGED <<config, millis, loopMillis, stopping, startingPosition, desiredPosition,
                   spinning, direction, dutyCycle, previousMillis, lastResetMillis,
                   interval, requests>>
    /\ IF ~wifi
       THEN /\ commits' = 0
            /\ UNCHANGED <<eeprom, serverBegun, calibration, currentPosition>>
       ELSE /\ serverBegun' = TRUE
            /\ IF eeprom.initialized
               THEN /\ secondsToClose' = eeprom.secondsToClose
                    /\ secondsToOpen' = eeprom.secondsToOpen
                    /\ currentPosition' = LoadedPosition
                    /\ commits' = 0
                    /\ UNCHANGED eeprom
               ELSE /\ eeprom' = [initialized |-> TRUE,
                                  secondsToClose |-> secondsToClose,
                                  secondsToOpen |-> secondsToOpen,
                                  currentPosition |-> currentPosition]
                    /\ commits' = 1
                    /\ UNCHANGED <<secondsToClose, secondsToOpen, currentPosition>>
            /\ milliesPerPercentClose' = MillisPerPercent(secondsToClose')
            /\ millisPerPercentOpen' = MillisPerPercent(secondsToOpen')

\* power is lost: RAM returns to its static initial values, the store stays
PowerLoss ==
    /\ pc # "off"
    /\ pc' = "off"
    /\ serverBegun' = FALSE
    /\ millis' = 0
    /\ secondsToClose' = config.DEFAULT_SECONDS_TO_CLOSE
    /\ secondsToOpen' = config.DEFAULT_SECONDS_TO_OPEN
    /\ milliesPerPercentClose' = MillisPerPercent(config.DEFAULT_SECONDS_TO_CLOSE)
    /\ millisPerPercentOpen' = MillisPerPercent(config.DEFAULT_SECONDS_TO_OPEN)
    /\ startingPosition' = FromInt(0)
    /\ currentPosition' = FromInt(0)
    /\ desiredPosition' = FromInt(0)
    /\ spinning' = FALSE
    /\ direction' = 0
    /\ dutyCycle' = 90
    /\ previousMillis' = 0
    /\ lastResetMillis' = 0
    /\ interval' = 0
    /\ loopMillis' = 0
    /\ stopping' = << >>
    /\ servoAttached' = FALSE
    /\ servoLog' = << >>
    /\ commits' = 0
    /\ lastOp' = Op("off", << >>, 0)
    /\ UNCHANGED <<config, eeprom, requests>>

\* the clock advances
Advance ==
    /\ pc # "off"
    /\ millis < MaxSteps * StepMillis
    /\ millis' = millis + StepMillis
    /\ UNCHANGED <<config, eeprom, pc, serverBegun, calibration, session, loopMillis,
                   stopping, servoAttached, servoLog, commits, lastOp, requests>>

Next ==
    \/ \E wifi \in BOOLEAN : setup(wifi)
    \/ PowerLoss
    \/ Advance
    \/ \E req \in Requests : SetRequest(req)
    \/ GetState
    \/ loop
    \/ stopSpinningResume
    \/ resetServoResume

Spec == Init /\ [][Next]_vars


----------------------------------------------------------------------------
(* Vocabulary of the properties                                             *)

Idle == pc = "loop" /\ ~spinning

InRange(x) == ~RLt(x, FromInt(0)) /\ ~RGt(x, FromInt(100)) /\ IsFinite(x)

\* a step that ends a session by stopSpinning (a power loss is not one)
StopStep == spinning /\ ~spinning' /\ pc' # "off"

\* the text holds no number: toDouble converts no digit of it
NotANumber(str) == ConvertedDigits(str) = 0


----------------------------------------------------------------------------
(* Properties                                                               *)

\* C1 (convergence): a pass of loop() made while a session is running, at a
\* time at least previousMillis + interval, ends the session: it begins
\* stopSpinning (and waits in the stop pulse) or leaves the system idle with
\* currentPosition and the stored position equal to the target.
C1_FirstPassAtIntervalEndsSession ==
    [][ (loop /\ spinning /\ USub(millis, previousMillis) >= interval)
            => \/ pc' = "stopDelay"
               \/ /\ Idle'
                  /\ currentPosition' = desiredPosition
                  /\ eeprom'.currentPosition = desiredPosition ]_vars

\* C1, supporting: of the sessions with a positive interval the statement
\* holds.
C1_PositiveIntervalSessionsEnd ==
    [][ (loop /\ spinning /\ interval > 0 /\ USub(millis, previousMillis) >= interval)
            => \/ pc' = "stopDelay"
               \/ /\ Idle'
                  /\ currentPosition' = desiredPosition
                  /\ eeprom'.currentPosition = desiredPosition ]_vars

\* C2 (persistence timing): once booted, the store is written, by one put and
\* one commit, in exactly the steps that end a session by stopSpinning, and
\* what is written is that session's target; every other step (a pass of
\* loop() that leaves the session running, a servo reset, a /set that starts
\* or retargets a session, a power loss) leaves the store as it was.
C2_StoreWrittenOnlyAtStop ==
    [][ pc # "off"
            => IF StopStep
               THEN /\ commits' = 1
                    /\ eeprom' = [eeprom EXCEPT !.currentPosition = desiredPosition]
               ELSE /\ eeprom' = eeprom
                    /\ (millis' = millis => commits' = 0) ]_vars

\* a session that was retargeted on the way has ended and its target is stored
C2_Witness ==
    /\ Idle /\ commits = 1 /\ requests = 2
    /\ startingPosition = FromInt(10)
    /\ eeprom.currentPosition = FromInt(30)

\* C3 (idempotence): a /set for the position the idle system is at creates no
\* session, issues no servo call and changes no position or timing variable.
C3_IdleRequestAtPositionIsNoOp ==
    [][ \A req \in Requests :
            (SetRequest(req) /\ Idle /\ req.hasParam
                /\ REq(toDouble(req.value), currentPosition))
            => (~spinning' /\ servoLog' = << >> /\ UNCHANGED <<session, servoAttached>>)
      ]_vars

\* C4 (range): whenever the booted system has no session, currentPosition,
\* desiredPosition, startingPosition and the stored position lie in [0,100].
C4_IdlePositionsInRange ==
    (pc # "off" /\ ~spinning)
        => /\ InRange(currentPosition)
           /\ InRange(desiredPosition)
           /\ InRange(startingPosition)
           /\ InRange(eeprom.currentPosition)

\* C5 (retarget continuity): a /set accepted while a session is running (one
\* of positive interval, before its interval has elapsed) starts the new
\* session from the estimate of the old session at the time of the
\* request, with previousMillis and lastResetMillis at the request time and
\* interval = |target - startingPosition| * the rate chosen for the move.
C5_RetargetStartsFromLiveEstimate ==
    [][ \A req \in Requests :
            (SetRequest(req) /\ spinning /\ req.hasParam
                /\ interval > 0 /\ USub(millis, previousMillis) < interval
                /\ StartGuard(toDouble(req.value)))
            => /\ startingPosition' = Estimate(millis)
               /\ previousMillis' = millis
               /\ lastResetMillis' = millis
               /\ FromInt(interval')
                     = RMul(RAbs(RSub(toDouble(req.value), startingPosition')),
                            FromInt(RateFor(toDouble(req.value))))
      ]_vars

\* C6 (rate matches direction): in every session interval equals
\* |desiredPosition - startingPosition| times the rate of the session's own
\* direction: milliesPerPercentClose when direction is 1 (closing),
\* millisPerPercentOpen when it is -1 (opening).
C6_IntervalUsesRateOfDirection ==
    spinning
        => FromInt(interval)
              = RMul(RAbs(RSub(desiredPosition, startingPosition)),
                     FromInt(IF direction = 1 THEN milliesPerPercentClose
                             ELSE millisPerPercentOpen))

C8_DirectionAgreesWithMove ==
    /\ (StateReply = 2) <=> ~spinning
    /\ spinning
         => /\ RNe(desiredPosition, startingPosition)
            /\ RGt(desiredPosition, startingPosition)
                  <=> (direction = 1 /\ dutyCycle = 0 /\ StateReply = 1)
            /\ RLt(desiredPosition, startingPosition)
                  <=> (direction = -1 /\ dutyCycle = 180 /\ StateReply = 0)


\* what a boot does with the store and with RAM when the stored settings are
\* reached: a blank store receives the marker, both calibration defaults and
\* position 0 in one commit; an initialized store is not written and its
\* values become the calibration and the position in RAM
BootFromStore ==
    IF eeprom.initialized
    THEN /\ eeprom' = eeprom
         /\ commits' = 0
         /\ currentPosition' = eeprom.currentPosition
         /\ secondsToClose' = eeprom.secondsToClose
         /\ secondsToOpen' = eeprom.secondsToOpen
         /\ milliesPerPercentClose' = MillisPerPercent(eeprom.secondsToClose)
         /\ millisPerPercentOpen' = MillisPerPercent(eeprom.secondsToOpen)
    ELSE /\ eeprom' = [initialized |-> TRUE,
                       secondsToClose |-> config.DEFAULT_SECONDS_TO_CLOSE,
                       secondsToOpen |-> config.DEFAULT_SECONDS_TO_OPEN,
                       currentPosition |-> FromInt(0)]
         /\ commits' = 1
         /\ currentPosition' = FromInt(0)

\* C9 (boot and power loss, as claimed): every boot leaves the system idle
\* and treats the store as BootFromStore says; a power loss leaves the store
\* as it is, so that the boot after it starts from the stored position.
C9_EveryBootLoadsStore ==
    [][ /\ (pc = "off" /\ pc' # "off") => (Idle' /\ BootFromStore)
        /\ (pc # "off" /\ pc' = "off") => eeprom' = eeprom ]_vars

\* C9 (amended): the same of the boots on which WiFi connects; a boot on
\* which it does not writes nothing, loads nothing and begins no server.
C9_BootLoadsStore ==
    [][ /\ (pc = "off" /\ pc' # "off")
              => /\ Idle'
                 /\ IF serverBegun' THEN BootFromStore
                    ELSE /\ eeprom' = eeprom /\ commits' = 0
                         /\ UNCHANGED <<calibration, currentPosition>>
        /\ (pc # "off" /\ pc' = "off") => eeprom' = eeprom ]_vars

\* a boot that follows two requests, of which one moved the blinds to -5 and
\* ended by stopSpinning, has loaded -5
C9_Witness ==
    /\ lastOp.name = "setup" /\ serverBegun /\ Idle /\ requests = 2
    /\ commits = 0
    /\ currentPosition = FromInt(-5) /\ eeprom.currentPosition = FromInt(-5)

\* C10 (malformed command): a /set without the position parameter, or with
\* one that holds no number, changes no session variable, issues no servo
\* call and leaves the store alone, with or without a session.
C10_MalformedSetIsNoOp ==
    [][ \A req \in Requests :
            (SetRequest(req) /\ (~req.hasParam \/ NotANumber(req.value)))
            => (servoLog' = << >> /\ UNCHANGED <<session, servoAttached, eeprom>>)
      ]_vars

\* C11 (interval never zero): in every state in which a session exists the
\* interval of the session is positive.
C11_SessionIntervalPositive == spinning => interval > 0

\* C12 (sessions are cancelled only by retarget): a session ends only by the
\* pass of loop() that finds its own completion, or by the stopSpinning that
\* this pass began and that waited in its stop pulse; a session is replaced
\* only by a /set request.  So the stopSpinning begun for one session never
\* ends another one, nor stores the target of another one as reached.
C12_SessionsEndByCompletionOrRetarget ==
    [][ (spinning /\ pc' # "off")
            => /\ ~spinning'
                    => \/ /\ pc = "loop"
                          /\ StopCondition(Estimate(millis), percentCompleted(millis))
                       \/ /\ pc = "stopDelay"
                          /\ stopping = <<SessionKey>>
                          /\ eeprom'.currentPosition = stopping[1][2]
               /\ (spinning' /\ SessionKey' # SessionKey) => requests' = requests + 1
      ]_vars

\* what C13 says of a pass of loop() made at time `now` while a session is
\* running: the pass computes the estimate, begins stopSpinning exactly when
\* the estimate equals the target, or the elapsed fraction exceeds 1, or the
\* estimate is not a position of [0,100], and otherwise leaves the estimate
\* in currentPosition; and before the interval has elapsed, a session between
\* two different positions of [0,100] keeps running with an estimate that
\* lies between its starting position (included) and its target (excluded)
\* and is no farther from the target than the estimate before it.
TickCompletes(now) ==
    LET value == Estimate(now)
        complete == \/ REq(value, desiredPosition)
                    \/ RGt(percentCompleted(now), FromInt(1))
                    \/ ~InRange(value)
        stopped == pc' = "stopDelay" \/ ~spinning'
    IN  /\ complete <=> stopped
        /\ (~complete \/ pc' = "stopDelay") => currentPosition' = value
        /\ ( /\ InRange(startingPosition) /\ InRange(desiredPosition)
             /\ startingPosition # desiredPosition
             /\ USub(now, previousMillis) < interval )
           => /\ ~stopped
              /\ currentPosition' # desiredPosition
              /\ IF RGt(desiredPosition, startingPosition)
                 THEN /\ ~RLt(currentPosition', startingPosition)
                      /\ ~RLt(currentPosition', currentPosition)
                      /\ RLt(currentPosition', desiredPosition)
                 ELSE /\ ~RGt(currentPosition', startingPosition)
                      /\ ~RGt(currentPosition', currentPosition)
                      /\ RGt(currentPosition', desiredPosition)

\* C13 (completion condition and no premature stop): every pass of loop()
\* made while a session is running does what TickCompletes says.
C13_TickCompletesExactlyWhenDone ==
    [][ (loop /\ spinning) => TickCompletes(millis) ]_vars

\* C13, supporting: of the sessions that start from a number and have a
\* positive interval the statement holds.
C13_PositiveIntervalTicks ==
    [][ (loop /\ spinning /\ IsFinite(startingPosition) /\ interval > 0)
            => TickCompletes(millis) ]_vars

\* loop() called stopSpinning in this pass
LoopStopped == pc' = "stopDelay" \/ ~spinning'

\* loop() called resetServo in this pass
LoopReset == pc' = "resetDelay"

\* C14 (watchdog scoping), of the builds that require servo resets: a pass of
\* loop() without a session changes nothing and calls nothing; the pass that
\* completes a session calls stopSpinning and no resetServo; a pass that
\* leaves the session running calls resetServo exactly when millisPerServoReset
\* or more have passed since lastResetMillis, and lastResetMillis then becomes
\* the time of that pass; a reset comes millisPerServoReset or more after the
\* start of its session.
C14_ResetsOnlyWhenDueInSession ==
    [][ /\ (loop /\ ~spinning)
              => /\ servoLog' = << >> /\ commits' = 0
                 /\ UNCHANGED <<eeprom, pc, session, servoAttached, calibration>>
        /\ (loop /\ spinning /\ LoopStopped)
              => /\ ~LoopReset
                 /\ lastResetMillis' = lastResetMillis
                 /\ <<"attach", servoPin>> \notin {servoLog'[i] : i \in DOMAIN servoLog'}
        /\ (loop /\ spinning /\ ~LoopStopped /\ config.SERVO_RESET_REQUIRED)
              => /\ LoopReset <=> USub(millis, lastResetMillis) >= millisPerServoReset
                 /\ LoopReset => USub(millis, previousMillis) >= millisPerServoReset
                 /\ ~LoopReset => lastResetMillis' = lastResetMillis
        /\ resetServoResume => lastResetMillis' = loopMillis
      ]_vars

\* the times at which the completion of a session is compared
SampleTimes == {k * StepMillis : k \in 0..(MaxSteps + 1)}

\* the passes of loop() at which the session is (or would be) found complete
CompletionTimes ==
    {t \in SampleTimes : t >= previousMillis
                         /\ StopCondition(Estimate(t), percentCompleted(t))}

\* C15 (refresh frame): a servo reset - the pass of loop() that detaches the
\* servo and waits, and the resumption that attaches it again - leaves
\* previousMillis, startingPosition, desiredPosition, interval, direction,
\* spinning and the store as they were and commits nothing; the resumption
\* writes the duty cycle the session was started with (0 for direction 1, 180
\* for direction -1) and changes, of the session, only lastResetMillis, to the
\* time of the pass.  CompletionTimes reads nothing but SessionKey, so the
\* times at which the session is found complete are the same after the reset
\* as before it.
C15_ResetLeavesSessionAlone ==
    [][ /\ (loop /\ LoopReset)
              => /\ UNCHANGED <<previousMillis, startingPosition, desiredPosition,
                                interval, direction, dutyCycle, spinning, eeprom,
                                lastResetMillis>>
                 /\ commits' = 0
                 /\ servoLog' = << <<"detach", servoPin>> >>
        /\ resetServoResume
              => /\ spinning
                 /\ UNCHANGED <<previousMillis, startingPosition, currentPosition,
                                desiredPosition, interval, direction, dutyCycle,
                                spinning, eeprom>>
                 /\ commits' = 0
                 /\ servoLog' = << <<"attach", servoPin>>,
                                   <<"write", IF direction = 1 THEN 0 ELSE 180>> >>
                 /\ lastResetMillis' = loopMillis
                 /\ SessionKey' = SessionKey
      ]_vars

\* a session 0 -> 30 started at 0 has been reset by the pass of loop() at
\* 2000 ms and still completes at 3000 ms
C15_Witness ==
    /\ lastOp.name = "resetServo" /\ spinning /\ pc = "loop"
    /\ previousMillis = 0 /\ interval = 3000 /\ lastResetMillis = 2000
    /\ desiredPosition = FromInt(30) /\ direction = 1
    /\ servoLog = << <<"attach", servoPin>>, <<"write", 0>> >>
    /\ 3000 \in CompletionTimes /\ 2000 \notin CompletionTimes

\* whether the servo is attached after the calls of log, made one after the
\* other on a servo that was attached or not according to `attached`
RECURSIVE AttachedAfter(_, _)
AttachedAfter(log, attached) ==
    IF log = << >> THEN attached
    ELSE AttachedAfter(Tail(log),
                       CASE Head(log)[1] = "attach" -> TRUE
                         [] Head(log)[1] = "detach" -> FALSE
                         [] OTHER -> attached)

\* the calls of log that attach a servo that is attached already
AttachesOnAttached(log, attached) ==
    {i \in DOMAIN log : /\ log[i][1] = "attach"
                        /\ AttachedAfter(SubSeq(log, 1, i - 1), attached)}

\* the duty-cycle writes of log that do not follow an attach at once
WritesWithoutAttach(log) ==
    {i \in DOMAIN log : /\ log[i][1] = "write"
                        /\ (i = 1 \/ log[i - 1][1] # "attach")}

\* C16 (attach protocol): when a /set request or a pass of loop() (with the
\* stopSpinning or resetServo it called) has completed and loop() waits in no
\* delay(), the servo is attached exactly if a session exists; no operation attaches a servo that is
\* attached already; and every duty-cycle write follows its attach at once,
\* but for the stop pulse of stopSpinning.
C16_AttachedIffSessionAndNoDoubleAttach ==
    [][ (millis' = millis /\ pc' # "off")
            => /\ pc' = "loop" => (servoAttached' <=> spinning')
               /\ AttachesOnAttached(servoLog', servoAttached) = {}
               /\ IF pc' = "stopDelay" /\ pc = "loop"
                  THEN servoLog' = << <<"write", config.SERVO_STOP_DUTYCYCLE>> >>
                  ELSE WritesWithoutAttach(servoLog') = {}
      ]_vars

====
